---- MODULE Spec2Model ----
(***************************************************************************)
(* da-log-gateway (src/_worker.js): a Cloudflare Worker that appends log   *)
(* rows to a D1 (SQLite) table, queries them, sweeps old rows on a timer   *)
(* and forwards each appended record to Ably and Telegram.                 *)
(*                                                                         *)
(* Values.  JavaScript / JSON / SQL values are tagged records:             *)
(*   Undef (undefined, a missing header, an unset variable),               *)
(*   Null  (JSON null, SQL NULL), Num(n), Str(s) with s a sequence of      *)
(*   one-character strings.                                                *)
(* Time.  The clock counts ticks, TicksPerDay of them to a day.  A         *)
(* timestamp TEXT is the sequence <<day, separator code, tick of day>>:    *)
(* the zero-padded date part orders as the day number does, the separator  *)
(* is the 11th character (' ' = 32 for SQLite's CURRENT_TIMESTAMP,         *)
(* 'T' = 84 for Date.toISOString), the time part orders as the tick does.  *)
(* Texts are compared as SQLite compares TEXT: lexicographically.          *)
(* A character outside the escapes TLA+ strings have is written by its     *)
(* code point, "U+00A0".                                                   *)
(*                                                                         *)
(* Steps.  The isolate runs one handler at a time and turns to another     *)
(* event only where the running invocation waits on I/O: request.json(),   *)
(* a D1 statement, a fetch().  One action is the code an invocation runs   *)
(* from one such await (or from the event's delivery) to the next, or to   *)
(* its return.  A statement takes effect in the store when it is issued.   *)
(***************************************************************************)
EXTENDS Integers, Sequences, FiniteSets, TLC

VARIABLES
    now,        \* the wall clock, in ticks
    schema,     \* the store's schema: which tables exist, which log1 indexes
    logTable,   \* the rows of log1
    logSeq,     \* log1's AUTOINCREMENT counter (sqlite_sequence)
    cfgTable,   \* the rows of __DA_SYSTEM_CONFIG
    env,        \* the environment the platform passes to an invocation
    G_ENV,      \* global: environment reference of the latest invocation
    G_DB,       \* global: store handle of the latest invocation
    req,        \* the event whose handling ended in the latest step, with its
                \* inputs; [op |-> "none"] when the latest step ended none
    resp,       \* the response (or settled value) of that event
    fx,         \* what that invocation did: statements, forwards, notes
    inv         \* the invocations in flight, suspended at an await, by slot

vars == <<now, schema, logTable, logSeq, cfgTable, env, G_ENV, G_DB, req, resp, fx, inv>>

----------------------------------------------------------------------------
(* Bounds of the model *)

MaxSeq == 2          \* at most this many rows are ever inserted into log1
TicksPerDay == 2     \* clock resolution
MaxDrift == 2        \* the clock runs to one retention window plus MaxDrift ticks
MaxBody == 2         \* AuthSpec: longest credential part of an Authorization header
MaxRows == 2         \* QuerySpec: most rows of an initial table
MaxInv == 2          \* most invocations in flight at once

(* Program constants *)

C_RETENTION_DAYS == 7
DB_VERSION == 1
LOG_SERVICE_VERSION == 1
DefaultLimit == 50

RetentionTicks == C_RETENTION_DAYS * TicksPerDay
MaxTime == RetentionTicks + MaxDrift

----------------------------------------------------------------------------
(* Values *)

Undef == [k |-> "undefined"]
Null == [k |-> "null"]
Num(n) == [k |-> "num", n |-> n]
Str(s) == [k |-> "str", s |-> s]

IsStr(v) == v.k = "str"
\* typeof v = "number": a whole number Num(n), or a number that is not
\* whole, [k |-> "real", ..].
IsNum(v) == v.k \in {"num", "real"}

\* JavaScript's ToBoolean, negated: the values `!v` is true of.
Falsy(v) ==
    \/ v.k = "undefined"
    \/ v.k = "null"
    \/ (IsStr(v) /\ v.s = <<>>)
    \/ (v.k = "num" /\ v.n = 0)

----------------------------------------------------------------------------
(* Strings *)
\* WhiteSpace and LineTerminator of ECMAScript: what String.prototype.trim
\* strips and parseInt skips.
WhiteSpace ==
    {" ", "\t", "\n", "\r", "\f", "U+000B", "U+00A0", "U+FEFF", "U+1680",
     "U+2000", "U+2001", "U+2002", "U+2003", "U+2004", "U+2005", "U+2006",
     "U+2007", "U+2008", "U+2009", "U+200A", "U+2028", "U+2029", "U+202F",
     "U+205F", "U+3000"}

IsSpace(c) == c \in WhiteSpace

RECURSIVE TrimLeft(_)
TrimLeft(s) == IF s # <<>> /\ IsSpace(Head(s)) THEN TrimLeft(Tail(s)) ELSE s

RECURSIVE TrimRight(_)
TrimRight(s) ==
    IF s # <<>> /\ IsSpace(s[Len(s)]) THEN TrimRight(SubSeq(s, 1, Len(s) - 1)) ELSE s

\* String.prototype.trim
Trim(s) == TrimRight(TrimLeft(s))

\* String.prototype.startsWith
StartsWith(s, p) == Len(s) >= Len(p) /\ SubSeq(s, 1, Len(p)) = p

\* String.prototype.slice(n), n >= 0
Slice(s, n) == IF n >= Len(s) THEN <<>> ELSE SubSeq(s, n + 1, Len(s))

\* The literal "Bearer " of checkAuthorization (7 characters).
BearerPrefix == <<"B", "e", "a", "r", "e", "r", " ">>

\* Index of the first occurrence of c in s, 0 if none.
RECURSIVE IndexFrom(_, _, _)
IndexFrom(s, c, i) ==
    IF i > Len(s) THEN 0 ELSE IF s[i] = c THEN i ELSE IndexFrom(s, c, i + 1)

\* The first two elements of s.split(":"), Undef where the array is shorter.
SplitColon2(s) ==
    LET i == IndexFrom(s, ":", 1) IN
    IF i = 0 THEN <<Str(s), Undef>>
    ELSE LET rest == Slice(s, i)
             j == IndexFrom(rest, ":", 1)
         IN <<Str(SubSeq(s, 1, i - 1)),
              Str(IF j = 0 THEN rest ELSE SubSeq(rest, 1, j - 1))>>

\* The code points above U+00FF among those written here.
AboveLatin1 ==
    (WhiteSpace \ {" ", "\t", "\n", "\r", "\f", "U+000B", "U+00A0"})
    \cup {"U+0100", "U+20AC", "U+D800"}

\* btoa(s) throws InvalidCharacterError: s holds a code point above U+00FF.
BtoaThrows(s) == \E i \in 1..Len(s) : s[i] \in AboveLatin1

\* encodeURIComponent(s) throws URIError: s holds a lone surrogate.
EncodeURIComponentThrows(s) == \E i \in 1..Len(s) : s[i] = "U+D800"

\* Lexicographic order on sequences of integers (SQLite's TEXT comparison).
RECURSIVE LexLess(_, _)
LexLess(a, b) ==
    IF b = <<>> THEN FALSE
    ELSE IF a = <<>> THEN TRUE
    ELSE IF Head(a) # Head(b) THEN Head(a) < Head(b)
    ELSE LexLess(Tail(a), Tail(b))

LexLeq(a, b) == a = b \/ LexLess(a, b)

----------------------------------------------------------------------------
(* Numbers in text *)

NaN == [k |-> "nan"]

DigitVal(c) ==
    CASE c = "0" -> 0 [] c = "1" -> 1 [] c = "2" -> 2 [] c = "3" -> 3
      [] c = "4" -> 4 [] c = "5" -> 5 [] c = "6" -> 6 [] c = "7" -> 7
      [] c = "8" -> 8 [] c = "9" -> 9 [] OTHER -> -1

\* The value of the longest prefix of s made of decimal digits, with acc the
\* value read so far; -1 when s starts with no digit and acc is -1.
RECURSIVE DigitsValue(_, _)
DigitsValue(s, acc) ==
    IF s = <<>> \/ DigitVal(Head(s)) < 0 THEN acc
    ELSE DigitsValue(Tail(s), (IF acc < 0 THEN 0 ELSE acc * 10) + DigitVal(Head(s)))

\* The length of the longest prefix of s made of decimal digits.
RECURSIVE DigitsLen(_)
DigitsLen(s) ==
    IF s = <<>> \/ DigitVal(Head(s)) < 0 THEN 0 ELSE 1 + DigitsLen(Tail(s))

\* parseInt(s, 10)
ParseInt(s) ==
    LET t == TrimLeft(s)
        signed == t # <<>> /\ Head(t) \in {"-", "+"}
        v == DigitsValue(IF signed THEN Tail(t) ELSE t, -1)
    IN IF v < 0 THEN NaN
       ELSE IF signed /\ Head(t) = "-" THEN Num(0 - v)
       ELSE Num(v)

\* The decimal digits of n >= 0, and the text a number is stored as.
RECURSIVE DigitsOf(_)
DigitsOf(n) ==
    LET d == <<"0", "1", "2", "3", "4", "5", "6", "7", "8", "9">>[(n % 10) + 1]
    IN IF n < 10 THEN <<d>> ELSE Append(DigitsOf(n \div 10), d)

RECURSIVE Pow10(_)
Pow10(n) == IF n = 0 THEN 1 ELSE 10 * Pow10(n - 1)

\* A number that is not an integer: m * 10^e with e < 0 and 10 not
\* dividing m.
Real(m, e) == [k |-> "real", m |-> m, e |-> e]

\* m * 10^e as a value, an integer where it is one.
RECURSIVE Scaled(_, _)
Scaled(m, e) ==
    IF m = 0 THEN Num(0)
    ELSE IF e >= 0 THEN Num(m * Pow10(e))
    ELSE IF m % 10 = 0 THEN Scaled(m \div 10, e + 1)
    ELSE Real(m, e)

\* The characters SQLite skips around a number in a text.
SqlSpaces == {" ", "\t", "\n", "\r", "\f", "U+000B"}

RECURSIVE SqlTrimLeft(_)
SqlTrimLeft(s) == IF s # <<>> /\ Head(s) \in SqlSpaces THEN SqlTrimLeft(Tail(s)) ELSE s

RECURSIVE SqlTrimRight(_)
SqlTrimRight(s) ==
    IF s # <<>> /\ s[Len(s)] \in SqlSpaces THEN SqlTrimRight(SubSeq(s, 1, Len(s) - 1)) ELSE s

\* What follows the integer digits w of an SQL number: [. digits]
\* [e [sign] digits] and nothing else.  neg tells a leading "-"; ok tells
\* whether the text is such a number, v is its value.
NumericTail(w, a, neg) ==
    LET dotted == a # <<>> /\ Head(a) = "."
        nf == IF dotted THEN DigitsLen(Tail(a)) ELSE 0
        b == IF dotted THEN Slice(Tail(a), nf) ELSE a
        hasE == b # <<>> /\ Head(b) \in {"e", "E"}
        eSign == IF hasE /\ Len(b) > 1 /\ b[2] \in {"-", "+"} THEN b[2] ELSE ""
        d == IF ~hasE THEN b ELSE IF eSign # "" THEN Slice(b, 2) ELSE Tail(b)
        ne == IF hasE THEN DigitsLen(d) ELSE 0
        mant == DigitsValue(w \o (IF dotted THEN SubSeq(Tail(a), 1, nf) ELSE <<>>), 0)
        ex == IF ~hasE THEN 0
              ELSE IF eSign = "-" THEN 0 - DigitsValue(d, 0)
              ELSE DigitsValue(d, 0)
    IN [ok |-> Len(w) + nf > 0 /\ (hasE => ne > 0) /\ Slice(d, ne) = <<>>,
        v |-> Scaled(IF neg THEN 0 - mant ELSE mant, ex - nf)]

\* The text s read as an SQL number: [sign] digits [. digits] [e [sign]
\* digits], at least one digit before the exponent, spaces allowed around
\* it.
NumericLiteral(s) ==
    LET t == SqlTrimRight(SqlTrimLeft(s))
        signed == t # <<>> /\ Head(t) \in {"-", "+"}
        u == IF signed THEN Tail(t) ELSE t
    IN NumericTail(SubSeq(u, 1, DigitsLen(u)), Slice(u, DigitsLen(u)),
                   signed /\ Head(t) = "-")

\* SQLite's NUMERIC affinity (column i1 INT): a text that is a well-formed
\* number becomes that number, any other value is kept.
NumericAffinity(v) ==
    IF IsStr(v) /\ NumericLiteral(v.s).ok THEN NumericLiteral(v.s).v ELSE v

RECURSIVE Zeros(_)
Zeros(n) == IF n <= 0 THEN <<>> ELSE <<"0">> \o Zeros(n - 1)

\* m * 10^e, m > 0, as <<m', e'>> of the same value with 10 not dividing m'.
RECURSIVE StripZeros(_, _)
StripZeros(m, e) == IF m % 10 = 0 THEN StripZeros(m \div 10, e + 1) ELSE <<m, e>>

\* The text SQLite gives the double 0.ds * 10^(Len(ds) + e), ds its
\* significant digits (at most 15): "%!.15g", which always writes a decimal
\* point and takes the exponent form below 1e-4 and from 1e15 on.
DoubleDigits(ds, e) ==
    LET x == Len(ds) + e - 1
    IN IF x < -4 \/ x >= 15
       THEN <<ds[1], ".">> \o (IF Len(ds) = 1 THEN <<"0">> ELSE Tail(ds))
            \o <<"e", IF x < 0 THEN "-" ELSE "+">>
            \o (IF x > -10 /\ x < 10 THEN <<"0">> ELSE <<>>)
            \o DigitsOf(IF x < 0 THEN 0 - x ELSE x)
       ELSE IF e >= 0 THEN ds \o Zeros(e) \o <<".", "0">>
       ELSE IF x >= 0 THEN SubSeq(ds, 1, x + 1) \o <<".">> \o SubSeq(ds, x + 2, Len(ds))
       ELSE <<"0", ".">> \o Zeros(0 - x - 1) \o ds

\* The text of the double m * 10^e.
DoubleText(m, e) ==
    IF m = 0 THEN <<"0", ".", "0">>
    ELSE IF m < 0
    THEN <<"-">> \o DoubleDigits(DigitsOf(StripZeros(0 - m, e)[1]), StripZeros(0 - m, e)[2])
    ELSE DoubleDigits(DigitsOf(StripZeros(m, e)[1]), StripZeros(m, e)[2])

\* SQLite's TEXT affinity (columns c1, c2 VARCHAR and t1 TEXT): a number
\* becomes its text, any other value is kept.  A number that is not whole
\* is bound as a double; for a whole number the source does not tell
\* whether .bind() hands it to the store as an integer ('5') or as a double
\* ('5.0'): asDouble is that choice.
TextAffinity(v, asDouble) ==
    IF v.k = "real" THEN Str(DoubleText(v.m, v.e))
    ELSE IF v.k = "num"
    THEN IF asDouble THEN Str(DoubleText(v.n, 0))
         ELSE Str(IF v.n < 0 THEN <<"-">> \o DigitsOf(0 - v.n) ELSE DigitsOf(v.n))
    ELSE v

----------------------------------------------------------------------------
(* Time *)

DayOf(t) == t \div TicksPerDay
TickOfDay(t) == t % TicksPerDay

\* SQLite's CURRENT_TIMESTAMP at clock t: 'YYYY-MM-DD HH:MM:SS'.
CurrentTimestamp(t) == <<DayOf(t), 32, TickOfDay(t)>>

\* new Date(t).toISOString(): 'YYYY-MM-DDTHH:MM:SS.sssZ'.
ToISOString(t) == <<DayOf(t), 84, TickOfDay(t)>>

\* The instant a timestamp text denotes.
InstantOf(text) == text[1] * TicksPerDay + text[3]

----------------------------------------------------------------------------
(* Authorization gate *)

\* A gate that compares the whole header with "Bearer " followed by the
\* configured token, character for character.
CheckAuthorizationExactHeader(header, expected) ==
    IF Falsy(expected) \/ Trim(expected.s) = <<>> THEN FALSE
    ELSE LET authHeader == IF Falsy(header) THEN <<>> ELSE header.s
         IN authHeader # BearerPrefix \o expected.s

\* checkAuthorization(request, expected): TRUE when it returns the 401
\* response, FALSE when it returns null.  header is
\* request.headers.get("Authorization"), Undef when the header is missing.
CheckAuthorization(header, expected) ==
    IF Falsy(expected) \/ Trim(expected.s) = <<>> THEN FALSE
    ELSE LET authHeader == IF Falsy(header) THEN <<>> ELSE header.s
             token == IF StartsWith(authHeader, BearerPrefix)
                      THEN Str(Trim(Slice(authHeader, 7)))
                      ELSE Null
         IN token # expected

checkAuthorizationRead(request, e) == CheckAuthorization(request.auth, e.DA_READTOKEN)
checkAuthorizationWrite(request, e) == CheckAuthorization(request.auth, e.DA_WRITETOKEN)

----------------------------------------------------------------------------
(* The store (D1 / SQLite) *)

\* A fixed literal text of the program (a column value, a message).
Text(t) == [k |-> "text", t |-> t]

IndexCols == {"c1", "c2", "i1", "v1"}

NoSchema == [cfg |-> FALSE, log |-> FALSE, idx |-> {}]
FullSchema == [cfg |-> TRUE, log |-> TRUE, idx |-> IndexCols]

\* A statement's outcome on the store state st = [schema, cfg].
Ok(st) == [ok |-> TRUE, st |-> st]
Failed(st) == [ok |-> FALSE, st |-> st]

\* CREATE TABLE IF NOT EXISTS <which> (createDaTableSchema).
createDaTableSchema(st, which) ==
    Ok([st EXCEPT !.schema[which] = TRUE])

\* CREATE INDEX IF NOT EXISTS idx_log1_<col> ON log1(<col>).
CreateIndexIfNotExists(st, col) ==
    IF ~st.schema.log THEN Failed(st)
    ELSE Ok([st EXCEPT !.schema.idx = @ \cup {col}])

CfgRow(id, c1, c2, i1, d1, t1) ==
    [id |-> id, c1 |-> c1, c2 |-> c2, i1 |-> i1, d1 |-> d1, t1 |-> t1]

\* INSERT OR REPLACE INTO __DA_SYSTEM_CONFIG: a row whose id exists is
\* replaced.
InsertOrReplaceCfg(st, row) ==
    IF ~st.schema.cfg THEN Failed(st)
    ELSE Ok([st EXCEPT !.cfg = {r \in @ : r.id # row.id} \cup {row}])

\* An insert that overwrites the row whose id exists.
InsertOverwritingCfg(st, row) == InsertOrReplaceCfg(st, row)

\* INSERT OR IGNORE INTO __DA_SYSTEM_CONFIG: a row whose id exists is kept.
InsertOrIgnoreCfg(st, row) ==
    IF ~st.schema.cfg THEN Failed(st)
    ELSE IF \E r \in st.cfg : r.id = row.id THEN Ok(st)
    ELSE Ok([st EXCEPT !.cfg = @ \cup {row}])

\* A row of log1.
LogRow(id, c1, c2, i1, t1, v1) ==
    [id |-> id, c1 |-> c1, c2 |-> c2, i1 |-> i1, t1 |-> t1, v1 |-> v1]

\* INSERT INTO log1 (c1, c2, i1, t1) VALUES (?, ?, ?, ?): each bound value
\* takes the affinity of its column, the store assigns id (AUTOINCREMENT)
\* and v1 (DEFAULT CURRENT_TIMESTAMP).
InsertLog(table, seq, c1, c2, i1, t1, t, asDouble) ==
    [table |-> table \cup {LogRow(seq + 1, TextAffinity(c1, asDouble),
                                  TextAffinity(c2, asDouble),
                                  NumericAffinity(i1), TextAffinity(t1, asDouble),
                                  CurrentTimestamp(t))},
     seq |-> seq + 1]

----------------------------------------------------------------------------
(* Environments and requests *)

TokenA == Str(<<"a">>)
TokenB == Str(<<"b">>)

Env(w, r, ably, bot, chat) ==
    [DB |-> [k |-> "d1"], DA_WRITETOKEN |-> w, DA_READTOKEN |-> r,
     ABLY_API_KEY |-> ably, ABLY_CHANNEL_NAME |-> Undef,
     LOG_TELEGRAM_BOT_TOKEN |-> bot, LOG_TELEGRAM_CHAT_ID |-> chat]

KeyOk == Str(<<"k", ":", "s">>)       \* ABLY_API_KEY of the form keyName:keySecret
Bot == Str(<<"t">>)
Chat == Str(<<"c">>)

EnvOpen == Env(Undef, Undef, Undef, Undef, Undef)     \* nothing configured
EnvFull == Env(TokenA, TokenB, KeyOk, Bot, Chat)      \* everything configured

\* Authorization header values as request.headers.get returns them.
Bearer(tok) == Str(BearerPrefix \o tok)
Headers == {Undef, Bearer(<<"a">>), Bearer(<<"b">>)}

\* POST /log bodies: text that is not JSON, JSON null, or a JSON object
\* whose members c1, c2, i1, t1 are each absent (Undef) or a value.
Malformed == [k |-> "malformed"]
Obj(c1, c2, i1, t1) == [k |-> "obj", c1 |-> c1, c2 |-> c2, i1 |-> i1, t1 |-> t1]

Bodies ==
    {Malformed, Null} \cup
    {Obj(c1, c2, i1, t1) :
        c1 \in {Undef, Str(<<"A">>)},
        c2 \in {Undef, Str(<<"x">>)},
        i1 \in {Undef, Null, Num(0)},
        t1 \in {Str(<<>>), Str(<<"m">>)}}

Response(status, body) == [status |-> status, body |-> body]
Unauthorized == Response(401, [error |-> "Unauthorized"])

Params(service_id, instance_id, level, from, to, limit) ==
    [service_id |-> service_id, instance_id |-> instance_id, level |-> level,
     from |-> from, to |-> to, limit |-> limit]

\* The events, each with its inputs and with the outcomes of its I/O, which
\* are FALSE until the invocation gets there: storeFail (the store refuses
\* the statement on log1), ablyFail and tgFail (the provider POST throws),
\* sendFail (a chat POST of logDelegate / errDelegate throws).  stmtError
\* is the error the statement on log1 ended with, "" for none; asDouble
\* tells how .bind() handed the whole numbers of the body to the store.
NoReq == [op |-> "none"]

PostLogReq(e, auth, body) ==
    [op |-> "POST /log", env |-> e, auth |-> auth, body |-> body,
     storeFail |-> FALSE, stmtError |-> "", ablyFail |-> FALSE, tgFail |-> FALSE,
     sendFail |-> FALSE, asDouble |-> FALSE]

\* failAt: the number of the statement the store refuses, 0 for none;
\* newUuid, logUuid: the values crypto.randomUUID() returns.
SystemInitReq(e, auth, failAt, newUuid, logUuid) ==
    [op |-> "POST /systeminit", env |-> e, auth |-> auth, failAt |-> failAt,
     newUuid |-> newUuid, logUuid |-> logUuid, sendFail |-> FALSE]

GetLogsReq(e, auth, p) ==
    [op |-> "GET /logs", env |-> e, auth |-> auth, params |-> p,
     storeFail |-> FALSE, stmtError |-> "", sendFail |-> FALSE]

ScheduledReq(e) ==
    [op |-> "scheduled", env |-> e, storeFail |-> FALSE, stmtError |-> "",
     sendFail |-> FALSE]

OtherReq(e) == [op |-> "other", env |-> e, sendFail |-> FALSE]

----------------------------------------------------------------------------
(* Invocations *)

\* What an invocation did besides answering.
\*   stmts:   number of statements it sent to the store
\*   ably:    payloads it POSTed to the pub/sub provider
\*   chat:    messages it POSTed to the chat provider
\*   console: lines it wrote to the local process output
\*   envUses: its reads of G_ENV, each with the value read
\*   dbUses:  its reads of G_DB, each with the value read
NoFx == [stmts |-> 0, ably |-> <<>>, chat |-> <<>>, console |-> <<>>,
         envUses |-> {}, dbUses |-> {}]

Note(via, msg) == [via |-> via, msg |-> msg]
EnvUse(what, e) == [what |-> what, env |-> e]
DbUse(what, db) == [what |-> what, db |-> db]

\* An invocation's local variables: the db parameter of daSystemTableInit /
\* logTableInit, the number of the statement awaited, the message of the
\* error thrown ("" for none), where the caller of logDelegate / errDelegate
\* goes on (k), summary.steps, and the response or value it will return
\* once the statement awaited has settled.
NoResp == Response(0, [text |-> ""])
NoLoc == [db |-> Null, stmt |-> 0, err |-> "", k |-> "", steps |-> <<>>, ret |-> NoResp]

\* An invocation: its event, the await it is suspended at (pc), its
\* response, its effects so far and its locals.
Invocation(r, pc) ==
    [req |-> r, pc |-> pc, resp |-> NoResp, fx |-> NoFx, loc |-> NoLoc]

IdleInv == Invocation(NoReq, "idle")

\* The store.
Store(sch, cfg, table, seq) == [schema |-> sch, cfg |-> cfg, table |-> table, seq |-> seq]

\* The globals as an invocation finds them when it runs.
Globals(g, d) == [ENV |-> g, DB |-> d]

\* A running invocation and the store it acts on.
Machine(me, st) == [me |-> me, st |-> st]

Suspend(m, pc) == [m EXCEPT !.me.pc = pc]
Return(m, r) == [m EXCEPT !.me.pc = "returned", !.me.resp = r]
ReadEnv(m, what, g) == [m EXCEPT !.me.fx.envUses = @ \cup {EnvUse(what, g)}]
Console(m, via, msg) == [m EXCEPT !.me.fx.console = Append(@, Note(via, msg))]
Statement(m, what, db) ==
    [m EXCEPT !.me.fx.stmts = @ + 1, !.me.fx.dbUses = @ \cup {DbUse(what, db)}]
Throw(m, err) == [m EXCEPT !.me.loc.err = err]

\* The code that follows `await logDelegate(..)` / `await errDelegate(..)`
\* at the place named k.
RECURSIVE Continue(_, _, _)

----------------------------------------------------------------------------
(* Notifications and forwarders *)

TelegramConfigured(e) ==
    ~Falsy(e.LOG_TELEGRAM_BOT_TOKEN) /\ ~Falsy(e.LOG_TELEGRAM_CHAT_ID)

\* sendTelegramMessage(message, isError) up to its fetch; it returns to k
\* at once when there is no chat to send to.
sendTelegramMessage(m, gl, isError, msg, k) ==
    LET m1 == ReadEnv(m, "sendTelegramMessage", gl.ENV)
    IN IF gl.ENV = Null THEN Continue(k, m1, gl)
       ELSE IF ~TelegramConfigured(gl.ENV) THEN Continue(k, m1, gl)
       ELSE Suspend([m1 EXCEPT !.me.fx.chat =
                                   Append(@, [kind |-> IF isError THEN "ERROR" ELSE "LOG",
                                              msg |-> msg]),
                               !.me.loc.k = k],
                    "await fetch(sendTelegramMessage)")

\* The fetch of sendTelegramMessage has settled: a failure is written to
\* the console and swallowed, and the caller of the delegate goes on.
sendTelegramMessageSettled(m, gl, failed) ==
    LET m1 == IF failed THEN Console(m, "console.error", "Telegram send error") ELSE m
    IN Continue(m.me.loc.k, [m1 EXCEPT !.me.req.sendFail = @ \/ failed], gl)

\* logDelegate / errDelegate: console line, then the chat mirror.
logDelegate(m, gl, msg, k) ==
    sendTelegramMessage(Console(m, "logDelegate", msg), gl, FALSE, msg, k)

errDelegate(m, gl, msg, k) ==
    sendTelegramMessage(Console(m, "errDelegate", msg), gl, TRUE, msg, k)

\* notifyTelegram(logData) up to its fetch.
notifyTelegram(m, gl) ==
    LET m1 == ReadEnv(m, "notifyTelegram", gl.ENV)
    IN IF gl.ENV = Null THEN Continue("appendLog: return 200", m1, gl)
       ELSE IF ~TelegramConfigured(gl.ENV) THEN Continue("appendLog: return 200", m1, gl)
       ELSE Suspend([m1 EXCEPT !.me.fx.chat =
                                   Append(@, [kind |-> "forward", msg |-> m.me.req.body])],
                    "await fetch(notifyTelegram)")

\* The fetch of notifyTelegram has settled; a throw goes to its catch.
notifyTelegramSettled(m, gl, failed) ==
    LET m1 == [m EXCEPT !.me.req.tgFail = failed]
    IN IF failed
       THEN errDelegate(m1, gl, "notifyTelegramByLevel error", "appendLog: return 200")
       ELSE Continue("appendLog: return 200", m1, gl)

\* Whether forwardToAbly reaches its provider POST: the key splits into a
\* name and a secret, and neither encodeURIComponent(channelName), with
\* channelName = G_ENV.ABLY_CHANNEL_NAME || "system-logs", nor
\* btoa(`${keyName}:${keySecret}`) throws.
AblyReached(e) ==
    /\ ~Falsy(e.ABLY_API_KEY)
    /\ ~Falsy(SplitColon2(e.ABLY_API_KEY.s)[1])
    /\ ~Falsy(SplitColon2(e.ABLY_API_KEY.s)[2])
    /\ ~EncodeURIComponentThrows(
            IF Falsy(e.ABLY_CHANNEL_NAME)
            THEN <<"s", "y", "s", "t", "e", "m", "-", "l", "o", "g", "s">>
            ELSE e.ABLY_CHANNEL_NAME.s)
    /\ ~BtoaThrows(SplitColon2(e.ABLY_API_KEY.s)[1].s \o <<":">>
                   \o SplitColon2(e.ABLY_API_KEY.s)[2].s)

\* A forwarder that skips a key it cannot split, as it skips an absent one.
forwardToAblySkipsBadKey(m, gl) ==
    LET g == gl.ENV
        m1 == ReadEnv(m, "forwardToAbly", g)
        parts == SplitColon2(g.ABLY_API_KEY.s)
    IN IF g = Null THEN Continue("appendLog: notifyTelegram", m1, gl)
       ELSE IF Falsy(g.ABLY_API_KEY) THEN Continue("appendLog: notifyTelegram", m1, gl)
       ELSE IF Falsy(parts[1]) \/ Falsy(parts[2])
       THEN Continue("appendLog: notifyTelegram", m1, gl)
       ELSE IF ~AblyReached(g)
       THEN errDelegate(m1, gl, "forwardToAbly error", "appendLog: notifyTelegram")
       ELSE Suspend([m1 EXCEPT !.me.fx.ably = Append(@, m.me.req.body)],
                    "await fetch(forwardToAbly)")

\* forwardToAbly(logData) up to its fetch.  An error thrown while the
\* argument of fetch is built goes to the catch at once: nothing is sent.
forwardToAbly(m, gl) ==
    LET g == gl.ENV
        m1 == ReadEnv(m, "forwardToAbly", g)
        parts == SplitColon2(g.ABLY_API_KEY.s)
        keyName == parts[1]
        keySecret == parts[2]
    IN IF g = Null THEN Continue("appendLog: notifyTelegram", m1, gl)
       ELSE IF Falsy(g.ABLY_API_KEY) THEN Continue("appendLog: notifyTelegram", m1, gl)
       ELSE IF Falsy(keyName) \/ Falsy(keySecret)
       THEN errDelegate(m1, gl, "Invalid ABLY_API_KEY", "appendLog: notifyTelegram")
       ELSE IF ~AblyReached(g)
       THEN errDelegate(m1, gl, "forwardToAbly error", "appendLog: notifyTelegram")
       ELSE Suspend([m1 EXCEPT !.me.fx.ably = Append(@, m.me.req.body)],
                    "await fetch(forwardToAbly)")

\* A forwarder whose failed POST is thrown on to the caller's catch.
forwardToAblyRethrows(m, gl, failed) ==
    LET m1 == [m EXCEPT !.me.req.ablyFail = failed]
    IN IF failed
       THEN errDelegate(Throw(m1, "fetch failed"), gl, "appendLog error",
                        "appendLog: return 500")
       ELSE Continue("appendLog: notifyTelegram", m1, gl)

\* The fetch of forwardToAbly has settled; a throw goes to its catch.
forwardToAblySettled(m, gl, failed) ==
    LET m1 == [m EXCEPT !.me.req.ablyFail = failed]
    IN IF failed
       THEN errDelegate(m1, gl, "forwardToAbly error", "appendLog: notifyTelegram")
       ELSE Continue("appendLog: notifyTelegram", m1, gl)

----------------------------------------------------------------------------
(* POST /log *)

\* The "Basic validation" of appendLog: TRUE when the body is rejected.
MissingFields(body) ==
    Falsy(body.c1) \/ Falsy(body.c2) \/ body.i1 = Undef \/ Falsy(body.t1)

\* request.json() followed by the destructuring of its result: the message
\* of the error thrown, or "" when none is.
BodyError(body) ==
    IF body.k = "malformed" THEN "Unexpected token in JSON"
    ELSE IF body.k = "null" THEN "Cannot destructure property 'c1' of 'body' as it is null."
    ELSE ""

\* Whether appendLog reaches its INSERT.
InsertReached(request, e) ==
    /\ ~checkAuthorizationWrite(request, e)
    /\ BodyError(request.body) = ""
    /\ ~MissingFields(request.body)

\* The error the store raises for a statement on log1, "" when it runs.
LogStmtError(sch, storeFail) ==
    IF storeFail THEN "D1_ERROR: store unavailable"
    ELSE IF ~sch.log THEN "D1_ERROR: no such table: log1"
    ELSE ""

\* A catch that answers 500 without errDelegate.
appendLogCatchSilent(m, gl) == Continue("appendLog: return 500", m, gl)

\* The catch of appendLog: errDelegate, then the 500 response.
appendLogCatch(m, gl) == errDelegate(m, gl, "appendLog error", "appendLog: return 500")

\* An appendLog that has sent its statement before the write gate rejects.
appendLogLateGate(m, gl) ==
    LET m1 == ReadEnv(m, "checkAuthorization", gl.ENV)
    IN IF checkAuthorizationWrite(m.me.req, gl.ENV)
       THEN Return(Statement(m1, "INSERT INTO log1", gl.DB), Unauthorized)
       ELSE Suspend(m1, "await request.json()")

\* appendLog(request) up to request.json(): the write gate.
appendLog(m, gl) ==
    LET m1 == ReadEnv(m, "checkAuthorization", gl.ENV)
    IN IF checkAuthorizationWrite(m.me.req, gl.ENV)
       THEN Return(m1, Unauthorized)
       ELSE Suspend(m1, "await request.json()")

\* request.json() has settled: destructuring, validation, and the INSERT
\* sent through G_DB at clock t.
appendLogBody(m, gl, t, storeFail, asDouble) ==
    LET body == m.me.req.body
        err == LogStmtError(m.st.schema, storeFail)
        ins == InsertLog(m.st.table, m.st.seq, body.c1, body.c2, body.i1, body.t1, t,
                         asDouble)
        m1 == Statement(m, "INSERT INTO log1", gl.DB)
    IN IF BodyError(body) # "" THEN appendLogCatch(Throw(m, BodyError(body)), gl)
       ELSE IF MissingFields(body)
       THEN Return(m, Response(400, [error |-> "Missing one or more required fields (c1, c2, i1, t1)"]))
       ELSE Suspend([m1 EXCEPT !.me.req.storeFail = storeFail, !.me.req.stmtError = err,
                               !.me.req.asDouble = asDouble,
                               !.me.loc.err = err,
                               !.st.table = IF err = "" THEN ins.table ELSE @,
                               !.st.seq = IF err = "" THEN ins.seq ELSE @],
                    "await INSERT")

\* The INSERT has settled: its error goes to the catch, otherwise the
\* record is forwarded.
appendLogInserted(m, gl) ==
    IF m.me.loc.err # "" THEN appendLogCatch(m, gl) ELSE forwardToAbly(m, gl)

----------------------------------------------------------------------------
(* POST /systeminit *)

\* The statements of daSystemTableInit (1..4) and logTableInit (5..9), in
\* the order systemInit issues them.
InitStmt(i, st, newUuid, logUuid) ==
    CASE i = 1 -> createDaTableSchema(st, "cfg")
      [] i = 2 -> InsertOrIgnoreCfg(st,
                    CfgRow(1, Text("___basic_db_version"), newUuid,
                           Num(DB_VERSION), Num(DB_VERSION), Null))
      [] i = 3 -> InsertOrIgnoreCfg(st,
                    CfgRow(100, Text("___systemReserve"), Null, Null, Null, Null))
      [] i = 4 -> InsertOrReplaceCfg(st,
                    CfgRow(101, Text("___log_service_version"), logUuid,
                           Num(LOG_SERVICE_VERSION), Null, Text("log1 schema v1")))
      [] i = 5 -> createDaTableSchema(st, "log")
      [] i = 6 -> CreateIndexIfNotExists(st, "c1")
      [] i = 7 -> CreateIndexIfNotExists(st, "c2")
      [] i = 8 -> CreateIndexIfNotExists(st, "i1")
      [] i = 9 -> CreateIndexIfNotExists(st, "v1")

InitStmtName(i) == IF i <= 4 THEN "daSystemTableInit" ELSE "logTableInit"

StepCfg == "System config table initialized."
StepLog == "Log table initialized."

\* Statement n is sent through the db its initialiser was passed; statement
\* failAt fails because the store does, any other by its own outcome.
IssueInit(m, n) ==
    LET r == InitStmt(n, m.st, m.me.req.newUuid, m.me.req.logUuid)
        ok == n # m.me.req.failAt /\ r.ok
        m1 == Statement(m, InitStmtName(n), m.me.loc.db)
    IN Suspend([m1 EXCEPT !.st = IF ok THEN r.st ELSE @,
                          !.me.loc.stmt = n,
                          !.me.loc.err = IF ok THEN "" ELSE "D1_ERROR"],
               "await init statement")

\* daSystemTableInit(db) and logTableInit(db) up to their first statement.
daSystemTableInit(m, db) == IssueInit([m EXCEPT !.me.loc.db = db], 1)
logTableInit(m, db) == IssueInit([m EXCEPT !.me.loc.db = db], 5)

\* The catch of systemInit.
systemInitCatch(m, gl) ==
    errDelegate(m, gl, "System initialization failed", "systemInit: return 500")

\* systemInit(request) up to the first statement: the write gate, then
\* daSystemTableInit(G_DB).
systemInit(m, gl) ==
    LET m1 == ReadEnv(m, "checkAuthorization", gl.ENV)
    IN IF checkAuthorizationWrite(m.me.req, gl.ENV)
       THEN Return(m1, Unauthorized)
       ELSE daSystemTableInit(m1, gl.DB)

\* A statement of the bootstrap has settled.  An error of statements 2..4
\* is caught in daSystemTableInit and thrown again, any other goes straight
\* to the catch of systemInit.
systemInitStatementSettled(m, gl) ==
    LET n == m.me.loc.stmt
    IN IF m.me.loc.err # ""
       THEN IF n \in 2..4
            THEN errDelegate(m, gl, "Error initializing system table",
                             "daSystemTableInit: throw")
            ELSE systemInitCatch(m, gl)
       ELSE IF n = 4
       THEN logDelegate(m, gl, "System config table initialized", "systemInit: logTableInit")
       ELSE IF n = 9
       THEN logDelegate(m, gl, "Log table and indexes initialized", "systemInit: logDelegate")
       ELSE IssueInit(m, n + 1)

\* Statements i..9 in turn on the store st alone, stopping at the first that
\* fails; failed is the number of the failing statement, 0 when all ran.
RECURSIVE RunInit(_, _, _, _, _)
RunInit(i, st, failAt, newUuid, logUuid) ==
    IF i > 9 THEN [failed |-> 0, st |-> st]
    ELSE IF i = failAt THEN [failed |-> i, st |-> st]
    ELSE LET r == InitStmt(i, st, newUuid, logUuid)
         IN IF ~r.ok THEN [failed |-> i, st |-> r.st]
            ELSE RunInit(i + 1, r.st, failAt, newUuid, logUuid)

----------------------------------------------------------------------------
(* GET /logs *)

\* The limit queryLogs binds: parseInt(searchParams.get("limit") || "50", 10).
EffectiveLimit(limit) ==
    ParseInt(IF Falsy(limit) THEN <<"5", "0">> ELSE limit.s)

\* SQL `a = b`: never true of NULL.
SqlEq(a, b) == a.k # "null" /\ b.k # "null" /\ a = b

\* The WHERE clause queryLogs builds from the parameters p, applied to row
\* r.  The level is compared with the INT column i1 and so takes NUMERIC
\* affinity; from and to are timestamp texts.
Where(r, p) ==
    /\ (Falsy(p.service_id) \/ SqlEq(r.c1, p.service_id))
    /\ (Falsy(p.instance_id) \/ SqlEq(r.c2, p.instance_id))
    /\ (Falsy(p.level) \/ SqlEq(r.i1, NumericAffinity(p.level)))
    /\ (Falsy(p.from) \/ ~LexLess(r.v1, p.from.s))
    /\ (Falsy(p.to) \/ LexLeq(r.v1, p.to.s))

\* ORDER BY id DESC
RECURSIVE OrderByIdDesc(_)
OrderByIdDesc(S) ==
    IF S = {} THEN <<>>
    ELSE LET top == CHOOSE r \in S : \A q \in S : q.id <= r.id
         IN <<top>> \o OrderByIdDesc(S \ {top})

\* LIMIT n: a negative n is no limit.
SqlLimit(rows, n) ==
    IF n < 0 \/ n >= Len(rows) THEN rows ELSE SubSeq(rows, 1, n)

\* The error of the SELECT, "" when it runs.  A NaN bound to LIMIT reaches
\* the store as NULL, which SQLite refuses ("datatype mismatch").
SelectError(sch, limit, storeFail) ==
    IF LogStmtError(sch, storeFail) # "" THEN LogStmtError(sch, storeFail)
    ELSE IF limit = NaN THEN "D1_ERROR: datatype mismatch"
    ELSE ""

\* queryLogs(request) up to the SELECT: the read gate, the statement built
\* from the parameters and sent through G_DB.  The store answers from the
\* rows it holds then.
queryLogs(m, gl, storeFail) ==
    LET m1 == ReadEnv(m, "checkAuthorization", gl.ENV)
        p == m.me.req.params
        limit == EffectiveLimit(p.limit)
        err == SelectError(m.st.schema, limit, storeFail)
        m2 == Statement(m1, "SELECT FROM log1", gl.DB)
    IN IF checkAuthorizationRead(m.me.req, gl.ENV) THEN Return(m1, Unauthorized)
       ELSE Suspend([m2 EXCEPT !.me.req.storeFail = storeFail, !.me.req.stmtError = err,
                               !.me.loc.err = err,
                               !.me.loc.ret =
                                   IF err # "" THEN Response(500, [error |-> err])
                                   ELSE Response(200,
                                          [rows |-> SqlLimit(OrderByIdDesc({r \in m.st.table : Where(r, p)}),
                                                             limit.n)])],
                    "await SELECT")

\* The SELECT has settled: the rows are returned, or the catch answers 500
\* (it calls no delegate).
queryLogsSettled(m) == Return(m, m.me.loc.ret)

----------------------------------------------------------------------------
(* The scheduled sweep *)

\* DELETE FROM log1 WHERE v1 < ?  with the cutoff text bound.
RowsBefore(table, cutoff) == {r \in table : LexLess(r.v1, cutoff)}

\* cleanOldLogs() at clock t up to its DELETE, sent through G_DB.  What it
\* settles to is written Response(0, [ret |-> v]): it answers no request.
cleanOldLogs(m, gl, t, storeFail) ==
    LET cutoff == ToISOString(t - RetentionTicks)
        gone == RowsBefore(m.st.table, cutoff)
        err == LogStmtError(m.st.schema, storeFail)
        m1 == Statement(m, "DELETE FROM log1", gl.DB)
    IN Suspend([m1 EXCEPT !.me.req.storeFail = storeFail, !.me.req.stmtError = err,
                          !.me.loc.err = err,
                          !.me.loc.ret = Response(0, [ret |-> Num(Cardinality(gone))]),
                          !.st.table = IF err = "" THEN @ \ gone ELSE @],
               "await DELETE")

\* The DELETE has settled: the count is reported through logDelegate and
\* returned; an error is written to the console and nothing is returned.
cleanOldLogsSettled(m, gl) ==
    IF m.me.loc.err # ""
    THEN Return(Console(m, "console.error", "Error cleaning logs"),
                Response(0, [ret |-> Undef]))
    ELSE logDelegate(m, gl, "Deleted old logs", "cleanOldLogs: return")

----------------------------------------------------------------------------
(* After a delegate *)

Continue(k, m, gl) ==
    CASE k = "appendLog: notifyTelegram" -> notifyTelegram(m, gl)
      [] k = "appendLog: return 200" -> Return(m, Response(200, [success |-> TRUE]))
      [] k = "appendLog: return 500" -> Return(m, Response(500, [error |-> m.me.loc.err]))
      [] k = "daSystemTableInit: throw" -> systemInitCatch(m, gl)
      [] k = "systemInit: logTableInit" ->
            logTableInit([m EXCEPT !.me.loc.steps = Append(@, StepCfg)], gl.DB)
      [] k = "systemInit: logDelegate" ->
            logDelegate([m EXCEPT !.me.loc.steps = Append(@, StepLog)], gl,
                        "System and Log Service initialized successfully",
                        "systemInit: return 200")
      [] k = "systemInit: return 200" ->
            Return(m, Response(200, [success |-> TRUE, details |-> m.me.loc.steps]))
      [] k = "systemInit: return 500" ->
            Return(m, Response(500, [success |-> FALSE, error |-> m.me.loc.err,
                                     details |-> m.me.loc.steps]))
      [] k = "cleanOldLogs: return" -> Return(m, m.me.loc.ret)

----------------------------------------------------------------------------
(* Events and steps *)

Slots == 1..MaxInv

\* Slot i may take a new event: it is the first slot not in use.
Free(i) == inv[i].pc = "idle" /\ \A j \in 1..(i - 1) : inv[j].pc # "idle"

\* The invocation of slot i, as it runs on the store.
Running(i) == Machine(inv[i], Store(schema, cfgTable, logTable, logSeq))

\* A new invocation for the event r.
Started(r) == Machine(Invocation(r, "running"), Store(schema, cfgTable, logTable, logSeq))

\* The globals a step runs with: those of the isolate.
GlobalsNow == Globals(G_ENV, G_DB)

\* fetch(request, env) / scheduled(event, env, ctx) set G_DB and G_ENV from
\* the env they are passed.
SetGlobals(e) ==
    /\ G_DB' = e.DB
    /\ G_ENV' = e
    /\ env' = e

\* The step of slot i has run to m: the store is as m left it; an
\* invocation that returned leaves its slot and shows in req, resp and fx.
Commit(i, m) ==
    LET returned == m.me.pc = "returned"
    IN /\ inv' = [inv EXCEPT ![i] = IF returned THEN IdleInv ELSE m.me]
       /\ req' = IF returned THEN m.me.req ELSE NoReq
       /\ resp' = IF returned THEN m.me.resp ELSE NoResp
       /\ fx' = IF returned THEN m.me.fx ELSE NoFx
       /\ schema' = m.st.schema
       /\ cfgTable' = m.st.cfg
       /\ logTable' = m.st.table
       /\ logSeq' = m.st.seq
       /\ now' = now

\* A step of slot i at the await pc, with the globals as they are now.
Resume(i, pc) ==
    /\ inv[i].pc = pc
    /\ UNCHANGED <<env, G_ENV, G_DB>>

\* POST /log is delivered to slot i: fetch sets the globals and appendLog
\* runs to request.json().
BeginPostLog(i, E, H, B) ==
    \E e \in E, auth \in H, body \in B :
      LET reading == {j \in Slots : inv[j].pc = "await request.json()"}
      IN /\ Free(i)
         /\ logSeq + Cardinality(reading) < MaxSeq
         /\ SetGlobals(e)
         /\ Commit(i, appendLog(Started(PostLogReq(e, auth, body)), Globals(e, e.DB)))

\* A body whose INSERT binds a whole number to a column of text.
WholeNumberAsText(body) ==
    /\ BodyError(body) = ""
    /\ ~MissingFields(body)
    /\ "num" \in {body.c1.k, body.c2.k, body.t1.k}

\* request.json() settles.  The outcome of the store is drawn where the
\* INSERT is reached, the form whole numbers are bound in where it shows.
PostLogBody(i) ==
    /\ Resume(i, "await request.json()")
    /\ \E storeFail \in (IF BodyError(inv[i].req.body) = ""
                            /\ ~MissingFields(inv[i].req.body) /\ schema.log
                         THEN BOOLEAN ELSE {FALSE}),
          asDouble \in (IF WholeNumberAsText(inv[i].req.body)
                        THEN BOOLEAN ELSE {FALSE}) :
         Commit(i, appendLogBody(Running(i), GlobalsNow, now, storeFail, asDouble))

\* The INSERT settles.
PostLogInserted(i) ==
    /\ Resume(i, "await INSERT")
    /\ Commit(i, appendLogInserted(Running(i), GlobalsNow))

\* The POST to the pub/sub provider settles.
PostLogForwarded(i) ==
    /\ Resume(i, "await fetch(forwardToAbly)")
    /\ \E failed \in BOOLEAN :
         Commit(i, forwardToAblySettled(Running(i), GlobalsNow, failed))

\* The POST of the record to the chat provider settles.
PostLogNotified(i) ==
    /\ Resume(i, "await fetch(notifyTelegram)")
    /\ \E failed \in BOOLEAN :
         Commit(i, notifyTelegramSettled(Running(i), GlobalsNow, failed))

\* The chat POST of a logDelegate / errDelegate settles, in any handler,
\* with an outcome of F (TRUE: the POST throws).
DelegateSent(i, F) ==
    /\ Resume(i, "await fetch(sendTelegramMessage)")
    /\ \E failed \in F :
         Commit(i, sendTelegramMessageSettled(Running(i), GlobalsNow, failed))

\* POST /systeminit is delivered to slot i: systemInit runs to its first
\* statement.  U holds the pairs of values crypto.randomUUID() returns.
BeginSystemInit(i, E, H, F, U) ==
    \E e \in E, auth \in H, failAt \in F, u \in U :
      /\ Free(i)
      /\ CheckAuthorization(auth, e.DA_WRITETOKEN)
           => (failAt = 0 /\ u = <<Text("u1"), Text("u1")>>)
      /\ SetGlobals(e)
      /\ Commit(i, systemInit(Started(SystemInitReq(e, auth, failAt, u[1], u[2])),
                              Globals(e, e.DB)))

\* A statement of the bootstrap settles.
SystemInitStatement(i) ==
    /\ Resume(i, "await init statement")
    /\ Commit(i, systemInitStatementSettled(Running(i), GlobalsNow))

\* GET /logs is delivered to slot i: queryLogs runs to its SELECT.
BeginGetLogs(i, E, H, P) ==
    \E e \in E, auth \in H, p \in P :
      \E storeFail \in (IF CheckAuthorization(auth, e.DA_READTOKEN)
                        THEN {FALSE} ELSE BOOLEAN) :
        /\ Free(i)
        /\ SetGlobals(e)
        /\ Commit(i, queryLogs(Started(GetLogsReq(e, auth, p)), Globals(e, e.DB), storeFail))

\* The SELECT settles.
GetLogsSettled(i) ==
    /\ Resume(i, "await SELECT")
    /\ Commit(i, queryLogsSettled(Running(i)))

\* The timer fires: scheduled sets the globals and hands cleanOldLogs(),
\* which has run to its DELETE, to ctx.waitUntil.
BeginScheduled(i, E) ==
    \E e \in E, storeFail \in BOOLEAN :
      /\ Free(i)
      /\ SetGlobals(e)
      /\ Commit(i, cleanOldLogs(Started(ScheduledReq(e)), Globals(e, e.DB), now, storeFail))

\* The DELETE settles.
SweepSettled(i) ==
    /\ Resume(i, "await DELETE")
    /\ Commit(i, cleanOldLogsSettled(Running(i), GlobalsNow))

\* Any other route: fetch sets the globals and answers 404.
NotFound(i, E) ==
    \E e \in E :
      /\ Free(i)
      /\ SetGlobals(e)
      /\ Commit(i, Return(Started(OtherReq(e)), Response(404, [text |-> "Not found"])))

\* Time passes, by one of the amounts D.
Tick(D) ==
    \E d \in D :
      /\ now + d <= MaxTime
      /\ now' = now + d
      /\ req' = NoReq
      /\ resp' = NoResp
      /\ fx' = NoFx
      /\ UNCHANGED <<schema, logTable, logSeq, cfgTable, env, G_ENV, G_DB, inv>>

\* The steps of the invocations in flight.
Steps(i) ==
    \/ PostLogBody(i)
    \/ PostLogInserted(i)
    \/ PostLogForwarded(i)
    \/ PostLogNotified(i)
    \/ DelegateSent(i, BOOLEAN)
    \/ SystemInitStatement(i)
    \/ GetLogsSettled(i)
    \/ SweepSettled(i)

----------------------------------------------------------------------------
(* Specifications *)

\* A fresh deployment: nothing created yet.
FreshStore == Store(NoSchema, {}, {}, 0)

\* A deployment whose bootstrap has run once.
ReadyStore ==
    LET st == RunInit(1, FreshStore, 0, Text("u1"), Text("u1")).st
    IN Store(st.schema, st.cfg, {}, 0)

\* A new isolate started at a clock of T, with environment from E and
\* store from S.
InitWith(E, S, T) ==
    /\ now \in T
    /\ env \in E
    /\ \E s \in S :
         /\ schema = s.schema
         /\ cfgTable = s.cfg
         /\ logTable = s.table
         /\ logSeq = s.seq
    /\ G_ENV = Null
    /\ G_DB = Null
    /\ req = NoReq
    /\ resp = NoResp
    /\ fx = NoFx
    /\ inv = [i \in Slots |-> IdleInv]

ValidBody(i1) == Obj(Str(<<"A">>), Str(<<"x">>), i1, Str(<<"m">>))
NoParams == Params(Null, Null, Null, Null, Null, Null)

\* Pairs of values of crypto.randomUUID().
FirstUuids == {<<Text("u1"), Text("u1")>>}
Uuids == FirstUuids \cup {<<Text("u2"), Text("u2")>>}

\* Bodies of each kind: not JSON, a field missing, valid with a null i1,
\* valid.
SomeBodies ==
    {Malformed, Obj(Undef, Str(<<"x">>), Num(0), Str(<<"m">>)),
     ValidBody(Null), ValidBody(Num(0))}

(* Spec: every route and the timer, invocations interleaved, on a fresh    *)
(* deployment with nothing or with everything configured.                  *)

Init == InitWith({EnvOpen, EnvFull}, {FreshStore}, {0})

Next ==
    \E i \in Slots :
      \/ BeginPostLog(i, {env}, Headers, SomeBodies)
      \/ BeginSystemInit(i, {env}, Headers, {0, 5}, FirstUuids)
      \/ BeginGetLogs(i, {env}, Headers, {NoParams})
      \/ BeginScheduled(i, {env})
      \/ NotFound(i, {env})
      \/ Steps(i)

Spec == Init /\ [][Next]_vars

\* The steps of POST /log.
PostLogSteps(i) ==
    \/ PostLogBody(i)
    \/ PostLogInserted(i)
    \/ PostLogForwarded(i)
    \/ PostLogNotified(i)
    \/ DelegateSent(i, BOOLEAN)

(* IngestSpec: POST /log with every body, no write token, the two          *)
(* forwarders configured or not, before and after the bootstrap.           *)

IngestEnvs ==
    {Env(Undef, Undef, ably, tg[1], tg[2]) :
        ably \in {Undef, KeyOk}, tg \in {<<Undef, Undef>>, <<Bot, Chat>>}}

\* Bodies whose values the columns convert: a level in text, a numeric
\* service id, numbers that are not whole (3.5, -0.25, 0.5, 0.000015).
ConvertedBodies ==
    {ValidBody(i1) : i1 \in {Str(<<"3">>), Str(<<" ", "-", "3", ".", "0">>),
                             Str(<<"3", ".", "5">>), Str(<<"x">>)}}
    \cup {Obj(Num(5), Str(<<"x">>), Num(0), Str(<<"m">>)),
          Obj(Real(35, -1), Real(-25, -2), Real(5, -1), Real(15, -6))}

InitIngest == InitWith(IngestEnvs, {FreshStore, ReadyStore}, {0})
NextIngest ==
    \E i \in Slots :
      \/ BeginPostLog(i, {env}, {Undef}, Bodies \cup ConvertedBodies)
      \/ PostLogSteps(i)
IngestSpec == InitIngest /\ [][NextIngest]_vars

(* AblyKeySpec: POST /log of a valid body under every shape of ABLY_API_KEY
   and of ABLY_CHANNEL_NAME, with the chat relay configured or not. *)
AblyKeys ==
    {Undef, Str(<<>>), Str(<<"k">>), Str(<<" ">>), Str(<<":", "s">>),
     Str(<<"k", ":">>), KeyOk, Str(<<"k", ":", "s", ":", "x">>),
     Str(<<"k", ":", "U+20AC">>), Str(<<"U+3000", ":", "s">>),
     Str(<<"k", ":", "U+00A0">>)}

AblyKeyEnvs ==
    {[Env(Undef, Undef, ably, tg[1], tg[2]) EXCEPT !.ABLY_CHANNEL_NAME = ch] :
        ably \in AblyKeys, tg \in {<<Undef, Undef>>, <<Bot, Chat>>},
        ch \in {Undef, Str(<<"c">>), Str(<<"U+D800">>)}}

InitAblyKey == InitWith(AblyKeyEnvs, {FreshStore, ReadyStore}, {0})
NextAblyKey ==
    \E i \in Slots :
      \/ BeginPostLog(i, {env}, {Undef}, {ValidBody(Num(0))})
      \/ PostLogSteps(i)
AblyKeySpec == InitAblyKey /\ [][NextAblyKey]_vars

(* AuthSpec: POST /log of a valid body under every write token and header. *)

\* All sequences over A of length at most n.
RECURSIVE SeqsUpTo(_, _)
SeqsUpTo(A, n) ==
    IF n = 0 THEN {<<>>}
    ELSE LET shorter == SeqsUpTo(A, n - 1)
         IN shorter \cup {Append(q, a) : q \in shorter, a \in A}

WriteTokens ==
    {Undef, Str(<<>>), Str(<<" ">>), Str(<<"\t">>), Str(<<"a">>), Str(<<" ", "a">>),
     Str(<<"a", "\t">>), Str(<<"a", "a">>)}

\* Header values: a scheme part followed by up to MaxBody + 1 characters.
\* The Headers object strips leading and trailing whitespace from a value,
\* so only such values reach the handler.
AuthHeaders ==
    {Undef} \cup
    {Str(h) : h \in {x \in {pre \o b :
                               pre \in {<<>>, BearerPrefix,
                                        <<"b", "e", "a", "r", "e", "r", " ">>},
                               b \in SeqsUpTo({"a", " ", "\t"}, MaxBody + 1)} \ {<<>>} :
                        ~IsSpace(x[1]) /\ ~IsSpace(x[Len(x)])}}

InitAuth == InitWith({Env(w, Undef, Undef, Undef, Undef) : w \in WriteTokens}, {ReadyStore}, {0})
NextAuth ==
    \E i \in Slots :
      \/ BeginPostLog(i, {env}, AuthHeaders, {ValidBody(Num(0))})
      \/ PostLogBody(i)
      \/ PostLogInserted(i)
AuthSpec == InitAuth /\ [][NextAuth]_vars

(* InitSpec: POST /systeminit with a store failure at any statement.       *)

NextSysInit ==
    \E i \in Slots :
      \/ BeginSystemInit(i, {env}, {Undef, Bearer(<<"a">>)}, {0, 1, 3, 6}, Uuids)
      \/ SystemInitStatement(i)
      \/ DelegateSent(i, BOOLEAN)
InitSpec == Init /\ [][NextSysInit]_vars

(* SweepSpec: rows appended as time passes, and the scheduled sweep.       *)

\* The deployment starts in the second half of day 0.
InitSweep == InitWith({EnvOpen}, {FreshStore, ReadyStore}, {1})
NextSweep ==
    \/ \E i \in Slots :
         \/ BeginPostLog(i, {env}, {Undef}, {ValidBody(Num(0))})
         \/ PostLogBody(i)
         \/ PostLogInserted(i)
         \/ BeginScheduled(i, {env})
         \/ SweepSettled(i)
    \/ Tick({1, RetentionTicks - 1})
SweepSpec == InitSweep /\ [][NextSweep]_vars

(* QuerySpec: one GET /logs, with every combination of parameters, on a    *)
(* table of up to MaxRows rows appended at clock 0 or 1.                    *)

QueryContents ==
    {<<Str(<<"A">>), Num(0)>>, <<Str(<<"A">>), Str(<<"3">>)>>,
     <<Str(<<"B">>), Num(3)>>, <<Str(<<"A">>), Null>>}

\* The store after the appends ins (each <<c1, i1, clock>>) on store s.
RECURSIVE AfterAppends(_, _)
AfterAppends(s, ins) ==
    IF ins = <<>> THEN s
    ELSE LET a == Head(ins)
             r == InsertLog(s.table, s.seq, a[1], Str(<<"x">>), a[2], Str(<<"m">>), a[3],
                            FALSE)
         IN AfterAppends(Store(s.schema, s.cfg, r.table, r.seq), Tail(ins))

QueryStores ==
    {AfterAppends(ReadyStore, ins) :
        ins \in {q \in SeqsUpTo({<<c[1], c[2], t>> : c \in QueryContents, t \in {0, 1}},
                                MaxRows) :
                    \A i \in 1..(Len(q) - 1) : q[i][3] <= q[i + 1][3]}}

QueryParams ==
    {Params(s, Null, l, f, t, n) :
        s \in {Null, Str(<<"A">>)},
        l \in {Null, Str(<<"3">>), Str(<<"3", ".", "0">>), Str(<<"x">>)},
        f \in {Null, Str(CurrentTimestamp(1))},
        t \in {Null, Str(CurrentTimestamp(0))},
        n \in {Null, Str(<<"0">>), Str(<<"\t", "1">>), Str(<<"-", "1">>), Str(<<"x">>)}}

InitQuery == InitWith({Env(Undef, r, Undef, Undef, Undef) : r \in {Undef, TokenB}}, QueryStores, {0})
NextQuery ==
    \E i \in Slots :
      \/ (/\ req.op = "none"
          /\ \A j \in Slots : inv[j].pc = "idle"
          /\ BeginGetLogs(i, {env}, {Undef, Bearer(<<"b">>)}, QueryParams))
      \/ GetLogsSettled(i)
QuerySpec == InitQuery /\ [][NextQuery]_vars

(* ConcSpec: invocations interleaved on a bootstrapped store, each passed  *)
(* one of two env objects that bind the same database through two handle  *)
(* objects and carry different secrets.                                    *)

EnvP == Env(Undef, Undef, KeyOk, Bot, Chat)
EnvQ == [Env(Undef, Undef, Str(<<"q">>), Str(<<"u">>), Str(<<"d">>))
           EXCEPT !.DB = [k |-> "d1 (second handle)"]]
ConcEnvs == {EnvP, EnvQ}

InitConc == InitWith({EnvP}, {ReadyStore}, {0})

NextConc ==
    \E i \in Slots :
      \/ BeginPostLog(i, ConcEnvs, {Undef}, {Malformed, ValidBody(Num(0))})
      \/ BeginSystemInit(i, ConcEnvs, {Undef}, {0}, FirstUuids)
      \/ BeginGetLogs(i, ConcEnvs, {Undef}, {NoParams})
      \/ BeginScheduled(i, ConcEnvs)
      \/ NotFound(i, ConcEnvs)
      \/ Steps(i)

ConcSpec == InitConc /\ [][NextConc]_vars

----------------------------------------------------------------------------
(* Properties *)

\* req, resp and fx show an invocation in the state that follows the step
\* in which it returned, and in no other.

WriteGateRejects == CheckAuthorization(req.auth, env.DA_WRITETOKEN)
ReadGateRejects == CheckAuthorization(req.auth, env.DA_READTOKEN)

\* A payload with c1, c2, t1 non-empty (a text, or a number other than 0)
\* and i1 present.
ValidPayload(b) ==
    /\ b.k = "obj"
    /\ (IsStr(b.c1) \/ IsNum(b.c1)) /\ ~Falsy(b.c1)
    /\ (IsStr(b.c2) \/ IsNum(b.c2)) /\ ~Falsy(b.c2)
    /\ (IsStr(b.t1) \/ IsNum(b.t1)) /\ ~Falsy(b.t1)
    /\ b.i1 # Undef

\* A parsed payload that lacks one of the four required fields.
PayloadMissingField(b) ==
    /\ b.k # "malformed"
    /\ \/ b.k # "obj"
       \/ Falsy(b.c1) \/ Falsy(b.c2) \/ b.i1 = Undef \/ Falsy(b.t1)

HasKind(msgs, kind) == \E i \in 1..Len(msgs) : msgs[i].kind = kind
HasVia(notes, via) == \E i \in 1..Len(notes) : notes[i].via = via

\* The invocation did nothing besides answering.
NoSideEffects(f) ==
    f.stmts = 0 /\ f.ably = <<>> /\ f.chat = <<>> /\ f.console = <<>>

\* The invocation shown sent its one statement and the store ran it.
StatementRan == fx.stmts = 1 /\ req.stmtError = ""

\* In this step the invocation of slot i goes on from request.json().
BodyRead(i) ==
    inv[i].pc = "await request.json()" /\ inv'[i].pc # "await request.json()"

\* C1: a valid POST /log that passes the write gate and whose insert
\* succeeds adds exactly one row, with the id and creation timestamp the
\* store assigns and the payload's four fields as their columns hold them,
\* and is answered 200 {success: true}, whatever the two forwarders do.
C1_ValidIngestPersistsOneRow ==
    /\ [][\A i \in Slots :
            (BodyRead(i) /\ ValidPayload(inv[i].req.body))
            => /\ inv'[i].pc = "await INSERT"
               /\ IF inv'[i].loc.err # "" THEN logTable' = logTable
                  ELSE \E r \in logTable' \ logTable :
                         /\ logTable' = logTable \cup {r}
                         /\ \A q \in logTable : q.id < r.id
                         /\ r.id = logSeq + 1
                         /\ r.v1 = CurrentTimestamp(now)
                         /\ r.c1 = TextAffinity(inv[i].req.body.c1, inv'[i].req.asDouble)
                         /\ r.c2 = TextAffinity(inv[i].req.body.c2, inv'[i].req.asDouble)
                         /\ r.i1 = NumericAffinity(inv[i].req.body.i1)
                         /\ r.t1 = TextAffinity(inv[i].req.body.t1, inv'[i].req.asDouble)]_vars
    /\ []((req.op = "POST /log" /\ ValidPayload(req.body) /\ StatementRan)
          => resp = Response(200, [success |-> TRUE]))

\* C1 witness: both forwarders threw, the row is there and the answer is 200.
C1_Witness ==
    /\ req.op = "POST /log"
    /\ req.ablyFail /\ req.tgFail
    /\ StatementRan
    /\ resp.status = 200
    /\ \E r \in logTable : r.c1 = TextAffinity(req.body.c1, req.asDouble)

\* C2: a POST /log that passes the write gate with a payload missing one of
\* c1, c2, i1, t1 is answered 400, leaves log1 unchanged and forwards nothing.
C2_MissingFieldIs400 ==
    [][(/\ req'.op = "POST /log"
        /\ ~CheckAuthorization(req'.auth, env.DA_WRITETOKEN)
        /\ PayloadMissingField(req'.body))
       => /\ resp'.status = 400
          /\ logTable' = logTable
          /\ fx'.stmts = 0
          /\ fx'.ably = <<>>
          /\ ~HasKind(fx'.chat, "forward")]_vars

\* C4: every row of log1 has non-null c1, c2, i1 and t1, an id the store
\* assigned and a creation timestamp the store wrote.
C4_RowsAreComplete ==
    \A r \in logTable :
      /\ r.c1 \notin {Null, Undef}
      /\ r.c2 \notin {Null, Undef}
      /\ r.i1 \notin {Null, Undef}
      /\ r.t1 \notin {Null, Undef}
      /\ r.id \in 1..logSeq
      /\ \E t \in 0..now : r.v1 = CurrentTimestamp(t)

\* C5: a request answered 401 changes neither table nor the schema, sends
\* no statement to the store and posts nothing to either provider, and
\* writes no notification.
C5_RejectionHasNoSideEffects ==
    [][resp'.status = 401
       => /\ UNCHANGED <<schema, logTable, logSeq, cfgTable>>
          /\ NoSideEffects(fx')]_vars

\* C5 witness: a valid append was rejected on a deployment that holds rows.
C5_Witness ==
    /\ req.op = "POST /log"
    /\ ValidPayload(req.body)
    /\ resp.status = 401
    /\ logTable # {}

\* The write token is configured: set and not blank.
TokenConfigured(w) == ~Falsy(w) /\ Trim(w.s) # <<>>

\* The header is literally "Bearer " followed by the token w.
HeaderIsBearer(h, w) == h # Undef /\ h.s = BearerPrefix \o w.s

\* The header carries w as checkAuthorization reads it: after "Bearer ",
\* with surrounding whitespace trimmed.
HeaderCarries(h, w) ==
    h # Undef /\ StartsWith(h.s, BearerPrefix) /\ Trim(Slice(h.s, 7)) = w.s

\* Ingestion went ahead: the valid body of the request was inserted and
\* answered 200, unless the store failed.
IngestionProceeded ==
    /\ resp.status # 401
    /\ fx.stmts = 1
    /\ ~req.storeFail => (req.stmtError = "" /\ resp.status = 200)

\* C3 as stated: POST /log is answered 401 exactly when a write token W is
\* configured and the Authorization header is anything other than
\* `Bearer W`; otherwise ingestion proceeds.
C3_GateRejectsAllButExactHeader ==
    req.op = "POST /log"
    => /\ (resp.status = 401)
            <=> (TokenConfigured(env.DA_WRITETOKEN)
                 /\ ~HeaderIsBearer(req.auth, env.DA_WRITETOKEN))
       /\ resp.status # 401 => IngestionProceeded

\* C3 as amended: POST /log is answered 401 exactly when a write token W is
\* configured and the header is missing, does not start with "Bearer ", or
\* differs from W in what follows "Bearer " once surrounding whitespace is
\* trimmed; otherwise ingestion proceeds.
C3_GateComparesTrimmedCredential ==
    req.op = "POST /log"
    => /\ (resp.status = 401)
            <=> (TokenConfigured(env.DA_WRITETOKEN)
                 /\ ~HeaderCarries(req.auth, env.DA_WRITETOKEN))
       /\ resp.status # 401 => IngestionProceeded

\* C3 witness: the token is "a", the header "Bearer", a space, a tab and
\* "a", and the request was let through and its row inserted.
C3_Witness ==
    /\ req.op = "POST /log"
    /\ env.DA_WRITETOKEN = TokenA
    /\ req.auth = Str(BearerPrefix \o <<"\t", "a">>)
    /\ resp.status = 200
    /\ StatementRan

\* The limit a request asks for: 50 when the parameter is absent or is not
\* a number.
ClaimedLimit(p) ==
    IF p.limit = Null \/ ParseInt(p.limit.s) = NaN THEN DefaultLimit
    ELSE ParseInt(p.limit.s).n

\* Row r satisfies every filter the parameters p supply.
SatisfiesFilters(r, p) ==
    /\ p.service_id # Null => r.c1 = p.service_id
    /\ p.instance_id # Null => r.c2 = p.instance_id
    /\ p.level # Null => (r.i1 # Null /\ r.i1 = NumericAffinity(p.level))
    /\ p.from # Null => InstantOf(r.v1) >= InstantOf(p.from.s)
    /\ p.to # Null => InstantOf(r.v1) <= InstantOf(p.to.s)

QueryServed ==
    /\ req.op = "GET /logs"
    /\ ~ReadGateRejects
    /\ LogStmtError(schema, req.storeFail) = ""

\* C6: a GET /logs that passes the read gate is answered with exactly the
\* rows satisfying all supplied filters, by descending id, cut to the
\* `limit` rows with the highest ids.
C6_QueryReturnsFilteredNewestFirst ==
    QueryServed
    => /\ resp.status = 200
       /\ LET rows == resp.body.rows
              got == {rows[i] : i \in 1..Len(rows)}
              all == {r \in logTable : SatisfiesFilters(r, req.params)}
          IN /\ got \subseteq all
             /\ \A i \in 1..(Len(rows) - 1) : rows[i].id > rows[i + 1].id
             /\ \A r \in got, q \in all \ got : q.id < r.id
             /\ \/ (got = all /\ Len(rows) <= ClaimedLimit(req.params))
                \/ Len(rows) = ClaimedLimit(req.params)

\* C10: with `limit` absent or not a number the effective limit is 50 and
\* the request is answered 200 with at most 50 rows.
C10_NonNumericLimitIsDefault ==
    (QueryServed /\ (req.params.limit = Null \/ ParseInt(req.params.limit.s) = NaN))
    => /\ EffectiveLimit(req.params.limit) = Num(DefaultLimit)
       /\ resp.status = 200
       /\ Len(resp.body.rows) <= DefaultLimit

\* C7: a sweep at time T deletes exactly the rows created strictly before
\* T minus 7 days and returns their number.
C7_SweepDeletesExactlyExpired ==
    [][\A i \in Slots :
         LET expired == {r \in logTable : InstantOf(r.v1) < now - RetentionTicks}
         IN /\ (inv[i].pc = "idle" /\ inv'[i].pc = "await DELETE" /\ inv'[i].loc.err = "")
               => /\ logTable' = logTable \ expired
                  /\ inv'[i].loc.ret.body.ret = Num(Cardinality(expired))
            /\ (inv[i].pc = "await DELETE" /\ inv[i].loc.err = "" /\ inv'[i].pc = "idle")
               => resp' = inv[i].loc.ret]_vars

CfgRows(id) == {r \in cfgTable : r.id = id}

\* C8: after a successful bootstrap the config table holds exactly one row
\* each of id 1, 100 and 101; the id=101 row carries the values of the
\* invocation that wrote it last; the rows of id 1 and 100, once seeded,
\* never change; and a bootstrap the store does not fail succeeds, whatever
\* exists already.
C8_BootstrapIsIdempotent ==
    /\ []((req.op = "POST /systeminit" /\ resp.status = 200)
          => /\ Cardinality(CfgRows(1)) = 1
             /\ Cardinality(CfgRows(100)) = 1
             /\ Cardinality(CfgRows(101)) = 1
             /\ cfgTable = CfgRows(1) \cup CfgRows(100) \cup CfgRows(101)
             /\ schema = FullSchema)
    /\ [][\A i \in Slots :
            (inv[i].loc.stmt = 3 /\ inv'[i].loc.stmt = 4 /\ inv'[i].loc.err = "")
            => {r \in cfgTable' : r.id = 101} =
                 {CfgRow(101, Text("___log_service_version"), inv[i].req.logUuid,
                         Num(LOG_SERVICE_VERSION), Null, Text("log1 schema v1"))}]_vars
    /\ []((req.op = "POST /systeminit" /\ ~WriteGateRejects /\ req.failAt = 0)
          => resp.status = 200)
    /\ [][\A id \in {1, 100} :
            CfgRows(id) # {} => {r \in cfgTable' : r.id = id} = CfgRows(id)]_vars

\* C8 witness: a later successful bootstrap drew another UUID and the id=1
\* row still holds the one first seeded.
C8_Witness ==
    /\ req.op = "POST /systeminit"
    /\ resp.status = 200
    /\ \E r \in cfgTable : r.id = 1 /\ r.c2 # req.newUuid

InsertFailed == req.op = "POST /log" /\ req.stmtError # ""
QueryFailed == req.op = "GET /logs" /\ req.stmtError # ""
SweepFailed == req.op = "scheduled" /\ req.stmtError # ""

\* An error notification went through the internal mirror: errDelegate
\* wrote it, and it was relayed to the chat when the chat is configured.
ErrorNotified ==
    /\ HasVia(fx.console, "errDelegate")
    /\ TelegramConfigured(env) => HasKind(fx.chat, "ERROR")

\* C9 as stated: a failing insert and a failing query are answered 500 with
\* the store's message; a failing insert, query or sweep is notified
\* through the internal mirror; none is retried.
C9_EveryStoreErrorIsNotified ==
    /\ InsertFailed
       => /\ resp = Response(500, [error |-> req.stmtError])
          /\ ErrorNotified /\ fx.stmts = 1
    /\ QueryFailed
       => /\ resp = Response(500, [error |-> req.stmtError])
          /\ ErrorNotified /\ fx.stmts = 1
    /\ SweepFailed => (ErrorNotified /\ fx.stmts = 1)

\* C9 as amended: a failing insert and a failing query are answered 500
\* with the store's message; only the failing insert is notified through
\* the internal mirror, the failing query writes nothing and the failing
\* sweep writes one line to the local console only; none is retried.
C9_OnlyInsertErrorIsNotified ==
    /\ InsertFailed
       => /\ resp = Response(500, [error |-> req.stmtError])
          /\ ErrorNotified /\ fx.stmts = 1
    /\ QueryFailed
       => /\ resp = Response(500, [error |-> req.stmtError])
          /\ fx.console = <<>> /\ fx.chat = <<>> /\ fx.stmts = 1
    /\ SweepFailed
       => /\ resp.body.ret = Undef
          /\ Len(fx.console) = 1 /\ fx.console[1].via = "console.error"
          /\ fx.chat = <<>> /\ fx.stmts = 1

\* C9 witness: the store failed a query on a deployment whose chat relay is
\* configured.
C9_Witness ==
    /\ QueryFailed
    /\ req.storeFail
    /\ TelegramConfigured(env)
    /\ resp.status = 500

\* ABLY_API_KEY is configured and has no colon separator.
KeyHasNoColon(k) == IsStr(k) /\ k.s # <<>> /\ IndexFrom(k.s, ":", 1) = 0

\* C11: with ABLY_API_KEY configured without a colon, a POST /log of a valid
\* payload whose insert the store runs writes an error notification through
\* errDelegate (relayed to the chat when the chat is configured), POSTs
\* nothing to the pub/sub provider, still makes the chat forward of the
\* payload, keeps the row and is answered 200 {success: true}.
C11_BadAblyKeyNotifiesAndIngests ==
    (/\ req.op = "POST /log"
     /\ ValidPayload(req.body)
     /\ StatementRan
     /\ KeyHasNoColon(env.ABLY_API_KEY))
    => /\ resp = Response(200, [success |-> TRUE])
       /\ \E r \in logTable :
            /\ r.c1 = TextAffinity(req.body.c1, req.asDouble)
            /\ r.t1 = TextAffinity(req.body.t1, req.asDouble)
       /\ fx.ably = <<>>
       /\ \E i \in 1..Len(fx.console) :
            fx.console[i] = Note("errDelegate", "Invalid ABLY_API_KEY")
       /\ TelegramConfigured(env)
          => /\ \E i \in 1..Len(fx.chat) :
                  /\ fx.chat[i].kind = "ERROR"
                  /\ fx.chat[i].msg = "Invalid ABLY_API_KEY"
             /\ \E i \in 1..Len(fx.chat) :
                  /\ fx.chat[i].kind = "forward"
                  /\ fx.chat[i].msg = req.body

\* C11 witness: the key is "k", the chat relay is configured, and the request
\* was answered 200 with its row, an error notification and the chat forward,
\* and nothing went to the pub/sub provider.
C11_Witness ==
    /\ req.op = "POST /log"
    /\ env.ABLY_API_KEY = Str(<<"k">>)
    /\ TelegramConfigured(env)
    /\ resp.status = 200
    /\ StatementRan
    /\ fx.ably = <<>>
    /\ HasKind(fx.chat, "ERROR") /\ HasKind(fx.chat, "forward")

\* C12: under every interleaving, each invocation makes all its reads of
\* the environment (authorization checks, forwards, notifications) with
\* the env it was passed, and all its store statements through the store
\* handle of that env.
C12_InvocationsAreIsolated ==
    /\ \A i \in Slots :
         /\ \A u \in inv[i].fx.envUses : u.env = inv[i].req.env
         /\ \A u \in inv[i].fx.dbUses : u.db = inv[i].req.env.DB
    /\ \A u \in fx.envUses : u.env = req.env
    /\ \A u \in fx.dbUses : u.db = req.env.DB

====
